---- MODULE Spec2Model ----
(***************************************************************************)
(* IndexCreator (index_creator.py): the normalisation of raw tokens, the   *)
(* three accumulation passes of create_index, the TF-IDF weighting and     *)
(* sort pass, and the persistence of the finished index.                   *)
(*                                                                         *)
(* A Python str is a sequence of one-character strings, so that split,     *)
(* len, replace and strip are computed character by character.  A dict or  *)
(* Counter is a sequence of entries in insertion order.  A float weight is *)
(* a fixed-point integer: log10 is tabulated in thousandths.               *)
(***************************************************************************)
EXTENDS Integers, Sequences, FiniteSets, TLC

(***************************************************************************)
(* Bounds of the model.                                                    *)
(***************************************************************************)
\* the largest number of documents of the collection
MaxDocs == 3
\* the largest number of create_index calls the caller makes in sequence
MaxRuns == 2

(***************************************************************************)
(* Python str operations.                                                  *)
(***************************************************************************)
Range(f) == {f[x] : x \in DOMAIN f}

\* s.startswith(p)
startswith(s, p) == Len(s) >= Len(p) /\ SubSeq(s, 1, Len(p)) = p

\* s.endswith(p)
endswith(s, p) == Len(s) >= Len(p) /\ SubSeq(s, Len(s) - Len(p) + 1, Len(s)) = p

\* s.replace(old, new): every non-overlapping occurrence, left to right
RECURSIVE str_replace(_, _, _)
str_replace(s, old, new) ==
    IF Len(s) < Len(old) THEN s
    ELSE IF startswith(s, old)
         THEN new \o str_replace(SubSeq(s, Len(old) + 1, Len(s)), old, new)
         ELSE <<Head(s)>> \o str_replace(Tail(s), old, new)

\* s.strip(): leading and trailing blanks removed
RECURSIVE str_strip(_)
str_strip(s) ==
    IF s = <<>> THEN s
    ELSE IF Head(s) = " " THEN str_strip(Tail(s))
    ELSE IF s[Len(s)] = " " THEN str_strip(SubSeq(s, 1, Len(s) - 1))
    ELSE s

\* s.split(sep) for a one-character sep: the pieces, empty ones included
RECURSIVE str_split(_, _)
str_split(s, sep) ==
    IF \A k \in 1..Len(s) : s[k] # sep THEN <<s>>
    ELSE LET k == CHOOSE j \in 1..Len(s) :
                      s[j] = sep /\ \A h \in 1..(j - 1) : s[h] # sep
         IN  <<SubSeq(s, 1, k - 1)>> \o str_split(SubSeq(s, k + 1, Len(s)), sep)

\* s.lower() over the letters the vocabularies use
LowerOf(c) ==
    CASE c = "U" -> "u" [] c = "N" -> "n" [] c = "K" -> "k" [] OTHER -> c

str_lower(s) == [k \in 1..Len(s) |-> LowerOf(s[k])]

(***************************************************************************)
(* replace_synonyms: the ordered rewrite rules, applied to ' ' + word + ' '*)
(* one after the other, then strip().                                      *)
(***************************************************************************)
SynonymRules ==
    <<
       <<<<" ","r","e","a","d"," ">>, <<"l","o","a","d">>>>,
       <<<<" ","w","r","i","t","e">>, <<"s","t","o","r","e">>>>,
       <<<<" ","s","a","v","e">>, <<"s","t","o","r","e">>>>,
       <<<<" ","d","u","m","p">>, <<"s","t","o","r","e">>>>,
       <<<<" ","q","u","i","t">>, <<"e","x","i","t">>>>,
       <<<<" ","t","e","r","m","i","n"," ">>, <<"e","x","i","t">>>>,
       <<<<" ","l","e","a","v">>, <<"e","x","i","t">>>>,
       <<<<" ","b","r","e","a","k"," ">>, <<"e","x","i","t">>>>,
       <<<<" ","p","o","p"," ">>, <<"d","e","l","e","t">>>>,
       <<<<"r","e","m","o","v">>, <<"d","e","l","e","t">>>>,
       <<<<" ","t","r","i","m"," ">>, <<"d","e","l","e","t">>>>,
       <<<<" ","s","t","r","i","p"," ">>, <<"d","e","l","e","t">>>>,
       <<<<" ","h","a","l","t">>, <<"s","t","o","p">>>>,
       <<<<"r","e","s","t","a","r","t">>, <<"c","o","n","t","i","n","u">>>>,
       <<<<"p","u","s","h"," ">>, <<"a","d","d">>>>,
       <<<<"o","b","j","e","c","t">>, <<"i","n","s","t","a","n","c">>>>,
       <<<<" ","n","u","l","l"," ">>, <<"n","o","n","e">>>>,
       <<<<"m","e","t","h","o","d">>, <<"f","u","n","c","t","i","o","n">>>>,
       <<<<"c","o","n","c","a","t"," ">>, <<"c","o","m","b","i","n">>>>,
       <<<<" ","f","o","r"," ">>, <<"l","o","o","p">>>>,
       <<<<" ","f","o","r","e","a","c","h"," ">>, <<"l","o","o","p">>>>,
       <<<<" ","w","h","i","l","e"," ">>, <<"l","o","o","p">>>>,
       <<<<" ","i","t","e","r","a","t"," ">>, <<"l","o","o","p">>>>,
       <<<<" ","i","n","t","e","g"," ">>, <<"i","n","t">>>>,
       <<<<"t","i","n","y","i","n","t"," ">>, <<"i","n","t">>>>,
       <<<<" ","s","m","a","l","l","i","n","t"," ">>, <<"i","n","t">>>>,
       <<<<" ","b","i","g","i","n","t"," ">>, <<"i","n","t">>>>,
       <<<<" ","s","h","o","r","t","i","n","t"," ">>, <<"i","n","t">>>>,
       <<<<"l","o","n","g","i","n","t"," ">>, <<"i","n","t">>>>,
       <<<<" ","b","y","t","e"," ">>, <<"i","n","t">>>>,
       <<<<" ","s","h","o","r","t"," ">>, <<"i","n","t">>>>,
       <<<<" ","d","o","u","b","l"," ">>, <<"f","l","o","a","t">>>>,
       <<<<" ","l","o","n","g"," ">>, <<"f","l","o","a","t">>>>,
       <<<<" ","d","e","c","i","m"," ">>, <<"f","l","o","a","t">>>>,
       <<<<"r","e","a","l"," ">>, <<"f","l","o","a","t">>>>,
       <<<<" ","a","r","r","a","y"," ">>, <<"[","]">>>>,
       <<<<" ","a","r","r"," ">>, <<"[","]">>>>,
       <<<<" ","f","a","s","t","e","s","t"," ">>, <<"f","a","s","t">>>>,
       <<<<" ","s","p","e","e","d"," ">>, <<"f","a","s","t">>>>,
       <<<<" ","d","e","f","i","n"," ">>, <<"c","r","e","a","t">>>>,
       <<<<" ","d","e","c","l","a","r"," ">>, <<"c","r","e","a","t">>>>,
       <<<<" ","i","n","i","t"," ">>, <<"c","r","e","a","t">>>>,
       <<<<" ","c","o","n","s","t","r","u","c","t"," ">>, <<"c","r","e","a","t">>>>,
       <<<<" ","n","e","w"," ">>, <<"c","r","e","a","t">>>>,
       <<<<" ","m","a","k","e"," ">>, <<"c","r","e","a","t">>>>,
       <<<<" ","i","n","i","t","i"," ">>, <<"c","r","e","a","t">>>>,
       <<<<" ","i","n","i","t","i","d"," ">>, <<"c","r","e","a","t">>>>,
       <<<<" ","b","o","o","l","e","a","n"," ">>, <<"b","o","o","l">>>>,
       <<<<"b","e","g","i","n">>, <<"s","t","a","r","t">>>>,
       <<<<"r","u","n"," ">>, <<"e","x","e","c","u","t">>>>,
       <<<<"r","u","n","n","a","b","l">>, <<"e","x","e","c","u","t">>>>,
       <<<<" ","e","n","u","m","e","r"," ">>, <<"e","n","u","m">>>>,
       <<<<" ","e","n","u","m","e","r","d"," ">>, <<"e","n","u","m">>>>,
       <<<<" ","w","e","b","s","i","t"," ">>, <<"w","e","b">>>>,
       <<<<" ","v","e","r","t","e","x"," ">>, <<"n","o","d","e">>>>,
       <<<<" ","a","r","c"," ">>, <<"e","d","g">>>>,
       <<<<" ","m","a","t","h"," ">>, <<"c","a","l","c">>>>,
       <<<<" ","d","e","t","e","r","m","i","n"," ">>, <<"c","a","l","c">>>>,
       <<<<" ","s","h","o","u","l","d"," ">>, <<"c","h","e","c","k">>>>,
       <<<<" ","t","e","s","t"," ">>, <<"c","h","e","c","k">>>>,
       <<<<" ","i","s"," ">>, <<"c","h","e","c","k">>>>,
       <<<<" ","e","n","s","u","r"," ">>, <<"c","h","e","c","k">>>>,
       <<<<" ","e","q","u","a","l"," ">>, <<"c","o","m","p","a","r">>>>,
       <<<<" ","i","m","p","l","e","m","e","n","t"," ">>, <<"e","x","t","e","n","d">>>>,
       <<<<" ","w","h","i","t","e","s","p","a","c"," ">>, <<"s","p","a","c","e">>>>
    >>

RECURSIVE ApplyRules(_, _)
ApplyRules(s, k) ==
    IF Len(s) = 0 \/ k > Len(SynonymRules) THEN s
    ELSE ApplyRules(str_replace(s, SynonymRules[k][1], SynonymRules[k][2]), k + 1)

replace_synonyms(word) == str_strip(ApplyRules(<<" ">> \o word \o <<" ">>, 1))

(***************************************************************************)
(* PorterStemmer.stem of nltk, default mode: lower-case the word, leave a  *)
(* word of at most two characters alone, then step 1a (plural endings).    *)
(* Steps 1b to 5 change none of the words of the vocabularies below.       *)
(***************************************************************************)
replace_suffix(word, suffix, replacement) ==
    SubSeq(word, 1, Len(word) - Len(suffix)) \o replacement

step1a(word) ==
    IF endswith(word, <<"i","e","s">>) /\ Len(word) = 4
        THEN replace_suffix(word, <<"i","e","s">>, <<"i","e">>)
    ELSE IF endswith(word, <<"s","s","e","s">>)
        THEN replace_suffix(word, <<"s","s","e","s">>, <<"s","s">>)
    ELSE IF endswith(word, <<"i","e","s">>)
        THEN replace_suffix(word, <<"i","e","s">>, <<"i">>)
    ELSE IF endswith(word, <<"s","s">>) THEN word
    ELSE IF endswith(word, <<"s">>) THEN replace_suffix(word, <<"s">>, <<>>)
    ELSE word

stem(word) ==
    IF Len(word) <= 2 THEN str_lower(word) ELSE step1a(str_lower(word))

(***************************************************************************)
(* The words the model names.                                              *)
(***************************************************************************)
w_new      == <<"n", "e", "w">>
w_brackets == <<"[", "]">>
w_UNK      == <<"U", "N", "K">>
w_the      == <<"t", "h", "e">>
w_read     == <<"r", "e", "a", "d">>
w_reads    == <<"r", "e", "a", "d", "s">>
w_array    == <<"a", "r", "r", "a", "y">>
w_list     == <<"l", "i", "s", "t">>
w_a        == <<"a">>
w_read_reads == <<"r", "e", "a", "d", "_", "r", "e", "a", "d", "s">>
w__get     == <<"_", "g", "e", "t">>
\* a word of 18 and a word of 19 characters
w_long18   == <<"a", "b", "c", "d", "f", "g", "h", "j", "k", "m", "n", "p", "q", "r", "t", "v", "w", "x">>
w_long19   == <<"a", "b", "c", "d", "f", "g", "h", "j", "k", "m", "n", "p", "q", "r", "t", "v", "w", "x", "z">>

(***************************************************************************)
(* The vocabularies (word -> integer code) that __init__ loads, and the    *)
(* integer-encoded documents of the dataset: each document has a line of   *)
(* codes per field.  Code 9 is in no vocabulary.                           *)
(***************************************************************************)
methname_vocab ==
    (w_new :> 1) @@ (w_array :> 2) @@ (w_read_reads :> 3) @@ (w_a :> 4) @@
    (w_reads :> 5) @@ (w_long19 :> 6) @@ (w_brackets :> 7)

token_vocab ==
    (w_new :> 1) @@ (w_reads :> 2) @@ (w_the :> 3) @@ (w_array :> 4) @@
    (w_long18 :> 5) @@ (w__get :> 6) @@ (w_read :> 7)

apiseq_vocab ==
    (w_brackets :> 1) @@ (w_list :> 2) @@ (w_array :> 3)

DocMenu ==
    { [m |-> <<1, 2>>, t |-> <<1, 2>>, a |-> <<1, 2, 1>>],
      [m |-> <<3, 4>>, t |-> <<3, 4>>, a |-> <<2, 3>>],
      [m |-> <<5, 6>>, t |-> <<5, 6>>, a |-> <<1>>],
      [m |-> <<9, 7>>, t |-> <<7, 1>>, a |-> <<>>] }

Corpora == UNION {[1..n -> DocMenu] : n \in 0..MaxDocs}

\* the stopword sets the caller may pass
StopwordSets == { {}, {w_the}, {w_the, w_read} }

IndexTypes == {"inverted_index", "word_indices", "other"}

(***************************************************************************)
(* porter.stem followed by replace_synonyms, tabulated once for every      *)
(* underscore-delimited piece of a word a document can hold.               *)
(***************************************************************************)
VocabWords ==
    DOMAIN methname_vocab \cup DOMAIN token_vocab \cup DOMAIN apiseq_vocab
        \cup {w_UNK}

Pieces == UNION {Range(str_split(w, "_")) : w \in VocabWords}

TermTable == [w \in Pieces |-> replace_synonyms(stem(w))]

(***************************************************************************)
(* dict and Counter: a sequence of <<key, value>> in insertion order.      *)
(***************************************************************************)
dict_keys(d) == {d[k][1] : k \in DOMAIN d}

dict_get(d, key) == d[CHOOSE k \in DOMAIN d : d[k][1] = key][2]

\* d[key] = value: in place when the key is there, appended when not
dict_set(d, key, value) ==
    IF key \in dict_keys(d)
        THEN [k \in DOMAIN d |-> IF d[k][1] = key THEN <<key, value>> ELSE d[k]]
        ELSE Append(d, <<key, value>>)

\* Counter.__missing__: a count that is not there reads as 0
counter_get(cnt, key) == IF key \in dict_keys(cnt) THEN dict_get(cnt, key) ELSE 0

(***************************************************************************)
(* State.                                                                  *)
(***************************************************************************)
VARIABLES
    index_type,        \* args.index_type
    files_present,     \* whether the three dataset files exist
    methname_indices,  \* the dataset: one line of codes per document
    token_indices,
    apiseq_indices,
    stopwords,         \* the caller's stopword set, passed to every create_index
    pc,                \* where the running call is
    i,                 \* create_index: 1 + the doc_id add_to_index handles next
    methnames,         \* create_index: the documents as words
    tokens,
    apiseqs,
    index,             \* create_index / save_index: the index
    number_of_code_fragments,
    pickle_file,       \* the store: <<>> when there is no file, else <<index>>
    database,          \* the store: <<>> when nothing is saved, else <<index>>
    loaded,            \* what the last load_index gave: <<outcome, value>>
    calls,             \* how many calls the caller has made
    op,                \* the caller's last call
    outcome,           \* how it ended
    base,              \* the stopword set as passed to this create_index
    writes,            \* how many writes to the store this call has made
    finished           \* the index each create_index handed to save_index

dataset == <<index_type, files_present, methname_indices, token_indices,
             apiseq_indices>>

locals == <<i, methnames, tokens, apiseqs, index, number_of_code_fragments>>

store == <<pickle_file, database>>

vars == <<dataset, stopwords, pc, locals, store, loaded, calls, op, outcome,
          base, writes, finished>>

(***************************************************************************)
(* load_data.                                                              *)
(***************************************************************************)
\* dict((v, k) for k, v in vocab.items())
inverted(vocab) ==
    [v \in Range(vocab) |-> CHOOSE k \in DOMAIN vocab : vocab[k] = v]

\* [inverted_vocab.get(i, 'UNK') for i in lst]
translate(vocab, lst) ==
    [k \in DOMAIN lst |->
        IF lst[k] \in DOMAIN inverted(vocab) THEN inverted(vocab)[lst[k]]
        ELSE w_UNK]

\* The tuple load_data returns, once its asserts have passed.  No branch
\* returns for another index type: None, which unpacks like the empty tuple.
load_data ==
    IF index_type = "word_indices" THEN <<methname_indices, token_indices>>
    ELSE IF index_type = "inverted_index"
        THEN << [d \in DOMAIN methname_indices |->
                    translate(methname_vocab, methname_indices[d])],
                [d \in DOMAIN token_indices |->
                    translate(token_vocab, token_indices[d])],
                [d \in DOMAIN apiseq_indices |->
                    translate(apiseq_vocab, apiseq_indices[d])] >>
    ELSE <<>>

(***************************************************************************)
(* add_to_index.                                                           *)
(***************************************************************************)
\* the stopwords argument: a set, or None
Some(s) == [none |-> FALSE, words |-> s]
None == [none |-> TRUE, words |-> {}]

\* `if stopwords:` -- None and the empty set are both false
truthy(sw) == ~sw.none /\ sw.words # {}

\* rejected, were the stopword test made on the stem instead of the raw piece
rejected_after_stem(word, sw) ==
    Len(word) < 2 \/ Len(word) > 18 \/ stem(word) \in sw.words

\* `if length < 2 or length > 18 or word in stopwords: continue`
rejected(word, sw) == Len(word) < 2 \/ Len(word) > 18 \/ word \in sw.words

\* porter.stem, then replace_synonyms
normalized(word) == TermTable[word]

\* `if word in index: index[word][i] += 1` / `else: index[word] = Counter({i: 1})`
increment(idx, word, doc) ==
    IF word \in dict_keys(idx)
        THEN dict_set(idx, word,
                 dict_set(dict_get(idx, word), doc,
                          counter_get(dict_get(idx, word), doc) + 1))
        ELSE dict_set(idx, word, << <<doc, 1>> >>)

\* `for word in raw_word.split('_')`
RECURSIVE add_pieces(_, _, _, _)
add_pieces(idx, pieces, doc, sw) ==
    IF pieces = <<>> THEN idx
    ELSE IF rejected(Head(pieces), sw)
        THEN add_pieces(idx, Tail(pieces), doc, sw)
        ELSE add_pieces(increment(idx, normalized(Head(pieces)), doc),
                        Tail(pieces), doc, sw)

\* `for raw_word in line`, stopwords given
RECURSIVE add_words(_, _, _, _)
add_words(idx, line, doc, sw) ==
    IF line = <<>> THEN idx
    ELSE add_words(add_pieces(idx, str_split(Head(line), "_"), doc, sw),
                   Tail(line), doc, sw)

\* add_brackets, were '[]' counted once for a line and not once for a token
add_brackets_once(idx, line, doc) ==
    IF w_brackets \in Range(line) THEN increment(idx, w_brackets, doc) ELSE idx

\* `for word in line`, no stopwords: `if word != '[]': continue`
RECURSIVE add_brackets(_, _, _)
add_brackets(idx, line, doc) ==
    IF line = <<>> THEN idx
    ELSE IF Head(line) # w_brackets THEN add_brackets(idx, Tail(line), doc)
    ELSE add_brackets(increment(idx, Head(line), doc), Tail(line), doc)

\* one iteration of `for i, line in enumerate(lines)`, in either branch
add_to_index_line(idx, line, doc, sw) ==
    IF truthy(sw) THEN add_words(idx, line, doc, sw)
    ELSE add_brackets(idx, line, doc)

(***************************************************************************)
(* The weighting and sort pass.                                            *)
(***************************************************************************)
\* 1000 * log10(n), rounded, for n = 1..12
Log10Milli == <<0, 301, 477, 602, 699, 778, 845, 903, 954, 1000, 1041, 1079>>

\* math.log10(n / d) in thousandths, for n, d >= 1:
\* log10(n / d) = log10(n) - log10(d), and it is 0 exactly when n = d
log10_ratio(n, d) == Log10Milli[n] - Log10Milli[d]

\* idf, were the ratio taken the other way round: log10(df / N)
idf_of_inverse_ratio(cnt, n) == log10_ratio(Len(cnt), n)

\* the inverse document frequency of a term with postings cnt
idf(cnt, n) == log10_ratio(n, Len(cnt))

\* line_counter[line_nr] = idf * math.log10(1 + line_counter[line_nr])
weighted(cnt, n) ==
    [k \in DOMAIN cnt |-> <<cnt[k][1], idf(cnt, n) * Log10Milli[1 + cnt[k][2]]>>]

\* math.log10 raises ValueError for 0: n / len(lines) is 0 when n is
weighting_fails(idx, n) == idx # <<>> /\ n = 0

\* sort_key, were the doc_id left out of the key: key=lambda x: -x[1]
sort_key_weight_only(x) == <<-x[2]>>

\* key=lambda x: (-x[1], x[0])
sort_key(x) == <<-x[2], x[1]>>

\* the order of Python tuples of integers
RECURSIVE tuple_lt(_, _)
tuple_lt(a, b) ==
    IF a = <<>> \/ b = <<>> THEN a = <<>> /\ b # <<>>
    ELSE IF Head(a) # Head(b) THEN Head(a) < Head(b)
    ELSE tuple_lt(Tail(a), Tail(b))

\* sorted() is stable: x goes before the first item whose key is greater
RECURSIVE insert_sorted(_, _)
insert_sorted(s, x) ==
    IF s = <<>> THEN <<x>>
    ELSE IF tuple_lt(sort_key(x), sort_key(Head(s))) THEN <<x>> \o s
    ELSE <<Head(s)>> \o insert_sorted(Tail(s), x)

RECURSIVE py_sorted(_)
py_sorted(items) ==
    IF items = <<>> THEN <<>>
    ELSE insert_sorted(py_sorted(SubSeq(items, 1, Len(items) - 1)),
                       items[Len(items)])

\* sorted_counter, were the postings of weight 0 dropped
positive_weight(x) == x[2] # 0

sorted_counter_without_zero(cnt) == py_sorted(SelectSeq(cnt, positive_weight))

\* Counter(dict(sorted(...))): every item kept, in the sorted order
sorted_counter(cnt) == py_sorted(cnt)

(***************************************************************************)
(* Init: a dataset on disk, a stopword set in the caller's hands, an empty *)
(* store, nothing called yet.                                              *)
(***************************************************************************)
NoLocals ==
    /\ i = 1
    /\ methnames = <<>>
    /\ tokens = <<>>
    /\ apiseqs = <<>>
    /\ index = <<>>
    /\ number_of_code_fragments = 0

\* The three fields are meant to be aligned; `short` drops the method name
\* of the last document, the misalignment the code does not check for.
Init ==
    /\ index_type \in IndexTypes
    /\ files_present \in BOOLEAN
    /\ \E corpus \in Corpora, short \in 0..1 :
          /\ short <= Len(corpus)
          /\ methname_indices = [d \in 1..(Len(corpus) - short) |-> corpus[d].m]
          /\ token_indices = [d \in DOMAIN corpus |-> corpus[d].t]
          /\ apiseq_indices = [d \in DOMAIN corpus |-> corpus[d].a]
    /\ stopwords \in StopwordSets
    /\ pc = "idle"
    /\ NoLocals
    /\ pickle_file = <<>>
    /\ database = <<>>
    /\ loaded = <<"none", <<>>>>
    /\ calls = 0
    /\ op = "none"
    /\ outcome = "none"
    /\ base = stopwords
    /\ writes = 0
    /\ finished = <<>>

\* the call returns or raises: its locals are gone
Return(how) ==
    /\ pc' = "idle"
    /\ outcome' = how
    /\ i' = 1
    /\ methnames' = <<>>
    /\ tokens' = <<>>
    /\ apiseqs' = <<>>
    /\ index' = <<>>
    /\ number_of_code_fragments' = 0

(***************************************************************************)
(* create_index(stopwords).                                                *)
(***************************************************************************)
\* lines 190-201: the word_indices return, load_data and its unpacking
create_index_begin ==
    /\ pc = "idle"
    /\ calls < MaxRuns
    /\ calls' = calls + 1
    /\ op' = "create_index"
    /\ base' = stopwords
    /\ writes' = 0
    /\ loaded' = <<"none", <<>>>>
    /\ IF index_type = "word_indices" THEN Return("returned")
       ELSE IF ~files_present THEN Return("AssertionError")
       ELSE IF Len(load_data) # 3 THEN Return("TypeError")
       ELSE /\ methnames' = load_data[1]
            /\ tokens' = load_data[2]
            /\ apiseqs' = load_data[3]
            /\ index' = <<>>
            /\ i' = 1
            /\ number_of_code_fragments' = 0
            /\ outcome' = "running"
            /\ pc' = IF index_type = "inverted_index" THEN "methname" ELSE "save"
    /\ UNCHANGED <<dataset, stopwords, store, finished>>

\* the lines and the stopwords argument of the add_to_index call under way
CurrentLines ==
    CASE pc = "methname" -> methnames
      [] pc = "tokens"   -> tokens
      [] pc = "apiseq"   -> apiseqs
      [] OTHER           -> <<>>

CurrentStopwords == IF pc = "apiseq" THEN None ELSE Some(stopwords)

\* lines 158-174 and 178-188: one document of the pass under way
add_to_index_step ==
    /\ pc \in {"methname", "tokens", "apiseq"}
    /\ i <= Len(CurrentLines)
    /\ index' = add_to_index_line(index, CurrentLines[i], i - 1, CurrentStopwords)
    /\ i' = i + 1
    /\ UNCHANGED <<dataset, stopwords, pc, methnames, tokens, apiseqs,
                   number_of_code_fragments, store, loaded, calls, op, outcome,
                   base, writes, finished>>

\* lines 202-204: the method-name pass is over, 'new' becomes a stopword
methname_pass_end ==
    /\ pc = "methname"
    /\ i > Len(methnames)
    /\ stopwords' = stopwords \cup {w_new}
    /\ pc' = "tokens"
    /\ i' = 1
    /\ UNCHANGED <<dataset, methnames, tokens, apiseqs, index,
                   number_of_code_fragments, store, loaded, calls, op, outcome,
                   base, writes, finished>>

\* lines 204-205
tokens_pass_end ==
    /\ pc = "tokens"
    /\ i > Len(tokens)
    /\ pc' = "apiseq"
    /\ i' = 1
    /\ UNCHANGED <<dataset, stopwords, methnames, tokens, apiseqs, index,
                   number_of_code_fragments, store, loaded, calls, op, outcome,
                   base, writes, finished>>

\* lines 205-206
apiseq_pass_end ==
    /\ pc = "apiseq"
    /\ i > Len(apiseqs)
    /\ number_of_code_fragments' = Len(methnames)
    /\ pc' = "weight"
    /\ i' = 1
    /\ UNCHANGED <<dataset, stopwords, methnames, tokens, apiseqs, index,
                   store, loaded, calls, op, outcome, base, writes, finished>>

\* lines 227-232: every count becomes a weight
weight_pass ==
    /\ pc = "weight"
    /\ IF weighting_fails(index, number_of_code_fragments)
          THEN Return("ValueError")
          ELSE /\ index' = [k \in DOMAIN index |->
                              <<index[k][1],
                                weighted(index[k][2], number_of_code_fragments)>>]
               /\ pc' = "sort"
               /\ UNCHANGED <<i, methnames, tokens, apiseqs,
                              number_of_code_fragments, outcome>>
    /\ UNCHANGED <<dataset, stopwords, store, loaded, calls, op, base, writes,
                   finished>>

\* lines 233-237: every term's postings are sorted; save_index is called
sort_pass ==
    /\ pc = "sort"
    /\ index' = [k \in DOMAIN index |->
                    <<index[k][1], sorted_counter(index[k][2])>>]
    /\ finished' = Append(finished, index')
    /\ pc' = "save"
    /\ UNCHANGED <<dataset, stopwords, i, methnames, tokens, apiseqs,
                   number_of_code_fragments, store, loaded, calls, op, outcome,
                   base, writes>>

(***************************************************************************)
(* save_index(index): from create_index, or called with an empty index.    *)
(***************************************************************************)
call_save_index ==
    /\ pc = "idle"
    /\ calls < MaxRuns
    /\ calls' = calls + 1
    /\ op' = "save_index"
    /\ writes' = 0
    /\ loaded' = <<"none", <<>>>>
    /\ index' = <<>>
    /\ outcome' = "running"
    /\ pc' = "save"
    /\ UNCHANGED <<dataset, stopwords, i, methnames, tokens, apiseqs,
                   number_of_code_fragments, store, base, finished>>

\* lines 123-132: data_loader.save_pickle writes the file, or raises
save_index_pickle ==
    /\ pc = "save"
    /\ IF index_type = "word_indices"
          THEN Return("returned") /\ UNCHANGED <<store, writes>>
          ELSE \E written \in BOOLEAN :
                  IF written
                     THEN /\ pickle_file' = <<index>>
                          /\ writes' = writes + 1
                          /\ pc' = "save_db"
                          /\ UNCHANGED <<database, locals, outcome>>
                     ELSE Return("IOError") /\ UNCHANGED <<store, writes>>
    /\ UNCHANGED <<dataset, stopwords, loaded, calls, op, base, finished>>

\* line 133: data_loader.save_index writes the database, or raises
save_index_database ==
    /\ pc = "save_db"
    /\ \E written \in BOOLEAN :
          IF written
             THEN /\ database' = <<index>>
                  /\ writes' = writes + 1
                  /\ Return("done")
                  /\ UNCHANGED pickle_file
             ELSE Return("IOError") /\ UNCHANGED <<store, writes>>
    /\ UNCHANGED <<dataset, stopwords, loaded, calls, op, base, finished>>

(***************************************************************************)
(* load_index().                                                           *)
(***************************************************************************)
\* lines 135-145
load_index ==
    /\ pc = "idle"
    /\ loaded' =
          IF index_type = "word_indices"
             THEN IF ~files_present THEN <<"AssertionError", <<>>>>
                  ELSE IF Len(load_data) # 3 THEN <<"ValueError", <<>>>>
                  ELSE <<"ok", <<load_data[1], load_data[2]>>>>
             ELSE IF pickle_file = <<>> THEN <<"AssertionError", <<>>>>
                  ELSE <<"ok", pickle_file[1]>>
    /\ UNCHANGED <<dataset, stopwords, pc, locals, store, calls, op, outcome,
                   base, writes, finished>>

Next ==
    \/ create_index_begin
    \/ add_to_index_step
    \/ methname_pass_end
    \/ tokens_pass_end
    \/ apiseq_pass_end
    \/ weight_pass
    \/ sort_pass
    \/ call_save_index
    \/ save_index_pickle
    \/ save_index_database
    \/ load_index

Spec == Init /\ [][Next]_vars

(***************************************************************************)
(* What the properties below speak of.                                     *)
(***************************************************************************)
\* the postings of term t in idx, and the value stored for document d
postings(idx, t) == IF t \in dict_keys(idx) THEN dict_get(idx, t) ELSE <<>>

stored(idx, t, d) == counter_get(postings(idx, t), d)

\* the <<term, doc_id>> entries of idx
entries(idx) ==
    UNION { {<<idx[k][1], idx[k][2][n][1]>> : n \in DOMAIN idx[k][2]} :
            k \in DOMAIN idx }

\* no key twice, in the index and in every Counter
well_formed(idx) ==
    /\ Cardinality(dict_keys(idx)) = Len(idx)
    /\ \A k \in DOMAIN idx : Cardinality(dict_keys(idx[k][2])) = Len(idx[k][2])

\* every term a document of the vocabularies can give rise to
Terms == Range(TermTable) \cup {w_brackets}

DocIds == 0..MaxDocs

\* the underscore-delimited pieces of every word a document can hold
pieces_of == [w \in VocabWords |-> str_split(w, "_")]

\* the positions <<token, piece>> of the pieces of a line
piece_positions(line) ==
    UNION { {<<k, j>> : j \in DOMAIN pieces_of[line[k]]} : k \in DOMAIN line }

piece_at(line, p) == pieces_of[line[p[1]]][p[2]]

\* a raw piece passes the length gate and the stopword gate
survives(piece, words) == Len(piece) >= 2 /\ Len(piece) <= 18 /\ piece \notin words

\* occurrences of t among the surviving, normalized pieces of a line
full_count(line, words, t) ==
    Cardinality({p \in piece_positions(line) :
                    /\ survives(piece_at(line, p), words)
                    /\ normalized(piece_at(line, p)) = t})

\* the tokens of a line that are literally '[]'
bracket_count(line) == Cardinality({k \in DOMAIN line : line[k] = w_brackets})

\* occurrences of t that one add_to_index call emits for document d
pass_count(lines, d, sw, t) ==
    IF d + 1 \notin DOMAIN lines THEN 0
    ELSE IF truthy(sw) THEN full_count(lines[d + 1], sw.words, t)
    ELSE IF t = w_brackets THEN bracket_count(lines[d + 1])
    ELSE 0

\* ... and the three calls of a build together
build_count(d, t) ==
    pass_count(methnames, d, Some(base), t)
        + pass_count(tokens, d, Some(base \cup {w_new}), t)
        + pass_count(apiseqs, d, None, t)

accumulated == op = "create_index" /\ pc \in {"weight", "sort", "save", "save_db"}

(***************************************************************************)
(* C1. Postings completeness: when the three accumulation passes are over, *)
(* the count stored for every term t and doc_id d is the number of         *)
(* surviving normalized occurrences of t the three passes emitted for d,   *)
(* an entry exists iff that number is at least 1, and the weighting and    *)
(* sort pass keeps exactly these <<term, doc_id>> entries, those of weight *)
(* 0 included.                                                             *)
(***************************************************************************)
C1_PostingsComplete ==
    accumulated =>
        LET emitted == [e \in Terms \X DocIds |-> build_count(e[2], e[1])]
        IN  /\ well_formed(index)
            /\ entries(index) = {e \in Terms \X DocIds : emitted[e] >= 1}
            /\ pc = "weight" =>
                  \A e \in Terms \X DocIds :
                      stored(index, e[1], e[2]) = emitted[e]

\* a finished index holding a term of every document, all its weights 0
C1_Witness ==
    /\ op = "create_index"
    /\ pc = "save"
    /\ number_of_code_fragments >= 2
    /\ \E k \in DOMAIN index :
          /\ Len(index[k][2]) = number_of_code_fragments
          /\ \A n \in DOMAIN index[k][2] : index[k][2][n][2] = 0
    /\ \E t \in Terms, d \in DocIds : build_count(d, t) >= 2

(***************************************************************************)
(* C2. Determinism: two create_index calls in sequence, on the same        *)
(* documents and with the caller's same stopword set, hand the same        *)
(* finished index to save_index.                                           *)
(***************************************************************************)
C2_Deterministic ==
    \A r, s \in DOMAIN finished : finished[r] = finished[s]

(***************************************************************************)
(* C3. Pass order and stopword injection: the method-name pass runs with   *)
(* the base stopword set, 'new' is a stopword from the start of the        *)
(* free-token pass on, and so at the end of the free-token pass the term   *)
(* of 'new' counts, for every document, the pieces 'new' of its method     *)
(* name when 'new' is not in the base set, and none of its free tokens.    *)
(***************************************************************************)
new_pieces(lines, d) ==
    IF d + 1 \notin DOMAIN lines THEN 0
    ELSE Cardinality({p \in piece_positions(lines[d + 1]) :
                         piece_at(lines[d + 1], p) = w_new})

C3_NewInjectedBetweenPasses ==
    /\ pc = "methname" => stopwords = base
    /\ pc \in {"tokens", "apiseq"} => stopwords = base \cup {w_new}
    /\ (pc = "apiseq" /\ i = 1 /\ w_new \notin base) =>
          \A d \in DocIds :
              stored(index, normalized(w_new), d) = new_pieces(methnames, d)

(***************************************************************************)
(* C4. The '[]'-only mode is for the API pass only: the method-name pass   *)
(* and the free-token pass normalize every token in full (split, length    *)
(* and stopword gate, stem, synonym rewrite), whatever base stopword set   *)
(* the caller passes, the empty set included.                              *)
(***************************************************************************)
C4_FullNormalizationInFirstTwoPasses ==
    (pc = "apiseq" /\ i = 1) =>
        \A t \in Terms, d \in DocIds :
            stored(index, t, d) =
                (IF d + 1 \in DOMAIN methnames
                    THEN full_count(methnames[d + 1], base, t) ELSE 0)
                + (IF d + 1 \in DOMAIN tokens
                    THEN full_count(tokens[d + 1], base \cup {w_new}, t) ELSE 0)

(***************************************************************************)
(* C5. Filter correctness: in a pass that runs with stopwords, a raw piece *)
(* of length 0, 1 or 19 and more, or one that is in the active stopword    *)
(* set (tested raw, before stemming and the synonym rewrite), causes no    *)
(* increment, and every other piece causes exactly one: handling document  *)
(* d raises the count of every term t for d by the number of surviving     *)
(* pieces of d's line whose normalized form is t, and nothing else.        *)
(***************************************************************************)
stopword_pass == pc \in {"methname", "tokens"} /\ truthy(Some(stopwords))

line_handled == pc' = pc /\ i' = i + 1

C5_FilterCorrect ==
    [][ (stopword_pass /\ line_handled) =>
          /\ \A t \in Terms \cup dict_keys(index') :
                stored(index', t, i - 1) =
                    stored(index, t, i - 1)
                        + full_count(CurrentLines[i], stopwords, t)
          /\ \A t \in Terms \cup dict_keys(index'), d \in DocIds \ {i - 1} :
                stored(index', t, d) = stored(index, t, d) ]_vars

\* 'read' is a stopword: the method name <<'reads', 19 letters>> has been
\* handled, 'reads' counted once under 'load' and the long word dropped
C5_Witness ==
    /\ pc = "methname"
    /\ i > 1
    /\ w_read \in stopwords
    /\ methnames[i - 1] = <<w_reads, w_long19>>
    /\ normalized(w_reads) = normalized(w_read)
    /\ stored(index, normalized(w_reads), i - 2) = 1
    /\ \A t \in Terms \ {normalized(w_reads)} : stored(index, t, i - 2) = 0

(***************************************************************************)
(* C6. Sort order: in the finished index the postings of every term are in *)
(* the one order in which weights do not increase and, among equal         *)
(* weights, doc_id strictly increases, whatever the order of insertion.    *)
(***************************************************************************)
in_order(cnt) ==
    \A n \in 1..(Len(cnt) - 1) :
        \/ cnt[n][2] > cnt[n + 1][2]
        \/ cnt[n][2] = cnt[n + 1][2] /\ cnt[n][1] < cnt[n + 1][1]

C6_SortOrder ==
    (op = "create_index" /\ pc \in {"save", "save_db"}) =>
        /\ finished[Len(finished)] = index
        /\ \A k \in DOMAIN index : in_order(index[k][2])
        /\ pc = "save_db" => pickle_file = <<index>>

\* 'load' was counted for document 1 in the method-name pass and only then
\* for document 0 in the free-token pass; its two weights are equal
C6_Witness ==
    /\ op = "create_index"
    /\ pc = "save"
    /\ Len(methnames) >= 2
    /\ pass_count(methnames, 0, Some(base), normalized(w_reads)) = 0
    /\ pass_count(methnames, 1, Some(base), normalized(w_reads)) = 1
    /\ pass_count(tokens, 0, Some(base \cup {w_new}), normalized(w_reads)) = 1
    /\ Len(postings(index, normalized(w_reads))) = 2
    /\ postings(index, normalized(w_reads))[1][1] = 0
    /\ postings(index, normalized(w_reads))[2][1] = 1
    /\ postings(index, normalized(w_reads))[1][2]
          = postings(index, normalized(w_reads))[2][2]

(***************************************************************************)
(* C7. IDF bounds: when the three fields hold the same number of documents,*)
(* every term of the raw-count index has 1 <= df <= N, so N / df is        *)
(* defined, idf >= 0, and idf = 0 iff df = N.                              *)
(***************************************************************************)
aligned == Len(methnames) = Len(tokens) /\ Len(tokens) = Len(apiseqs)

C7_IdfBounds ==
    (op = "create_index" /\ pc = "weight" /\ aligned) =>
        /\ ~weighting_fails(index, number_of_code_fragments)
        /\ \A k \in DOMAIN index :
              /\ Cardinality(dict_keys(index[k][2])) = Len(index[k][2])
              /\ 1 <= Len(index[k][2])
              /\ Len(index[k][2]) <= number_of_code_fragments
              /\ idf(index[k][2], number_of_code_fragments) >= 0
              /\ idf(index[k][2], number_of_code_fragments) = 0
                    <=> Len(index[k][2]) = number_of_code_fragments

\* an aligned collection with a term of every document and a rarer term
C7_Witness ==
    /\ op = "create_index"
    /\ pc = "weight"
    /\ aligned
    /\ number_of_code_fragments >= 2
    /\ \E k \in DOMAIN index : Len(index[k][2]) = number_of_code_fragments
    /\ \E k \in DOMAIN index :
          /\ Len(index[k][2]) < number_of_code_fragments
          /\ idf(index[k][2], number_of_code_fragments) > 0

(***************************************************************************)
(* C8. For the index kind "word_indices" nothing is built or stored by     *)
(* create_index and save_index, and load_index returns the document        *)
(* collection itself, the integer-encoded method names and tokens, without *)
(* raising.                                                                *)
(***************************************************************************)
C8_WordIndicesPassthrough ==
    index_type = "word_indices" =>
        /\ index = <<>>
        /\ finished = <<>>
        /\ writes = 0
        /\ pickle_file = <<>>
        /\ database = <<>>
        /\ (loaded[1] # "none" /\ files_present) =>
              loaded = <<"ok", <<methname_indices, token_indices>>>>

(***************************************************************************)
(* C9. Persistence is all-or-nothing and happens once: a create_index      *)
(* writes the index to the store at most once, only when every term is     *)
(* weighted and sorted, and a call that fails has written nothing.         *)
(***************************************************************************)
failed == outcome \in {"AssertionError", "TypeError", "ValueError", "IOError"}

C9_PersistedOnceOrNotAtAll ==
    op = "create_index" =>
        /\ writes <= 1
        /\ failed => writes = 0
        /\ (pc \in {"methname", "tokens", "apiseq", "weight", "sort"}) => writes = 0

(***************************************************************************)
(* C10. The API pass: handling document d raises the count of '[]' for d   *)
(* by the number of tokens of d's API line that are literally '[]', on top *)
(* of what earlier passes counted, creates no other term and leaves every  *)
(* other posting as it was.                                                *)
(***************************************************************************)
C10_ApiPassCountsBrackets ==
    [][ (pc = "apiseq" /\ line_handled) =>
          /\ stored(index', w_brackets, i - 1) =
                stored(index, w_brackets, i - 1) + bracket_count(apiseqs[i])
          /\ dict_keys(index') \subseteq dict_keys(index) \cup {w_brackets}
          /\ \A k \in DOMAIN index :
                index[k][1] # w_brackets => index'[k] = index[k]
          /\ entries(index') \subseteq entries(index) \cup {<<w_brackets, i - 1>>}
          /\ \A d \in DocIds \ {i - 1} :
                stored(index', w_brackets, d) = stored(index, w_brackets, d) ]_vars

\* document d has 'array' in its method name and two '[]' in its API line:
\* after the API pass has handled it, '[]' counts 3 for d; 'creat' is there too
C10_Witness ==
    /\ pc = "apiseq"
    /\ i > 1
    /\ bracket_count(apiseqs[i - 1]) = 2
    /\ pass_count(methnames, i - 2, Some(base), w_brackets) = 1
    /\ pass_count(tokens, i - 2, Some(base \cup {w_new}), w_brackets) = 0
    /\ stored(index, w_brackets, i - 2) = 3
    /\ normalized(w_new) \in dict_keys(index)

====
